---- MODULE Spec2Model ----
(***************************************************************************)
(* A model of the phase query DSL and the board's phase scheduler of       *)
(* upygame: utilities/reader.py (the query parser), board/phase.py (the    *)
(* Phase state machine) and board/board.py (the scheduler in Board).       *)
(*                                                                         *)
(* Python strings are sequences of one-character strings, so that the      *)
(* parser's slicing, splitting and replacing are computed as the code      *)
(* computes them.  A Python call that can raise returns a record with an   *)
(* `exc` field naming the exception ("None" when it returns normally).     *)
(***************************************************************************)
EXTENDS Integers, Sequences, FiniteSets, TLC

\* ------------------------------------------------------------------------
\* Python str operations used by utilities/reader.py
\* ------------------------------------------------------------------------

\* the characters str.split() and str.strip() treat as whitespace
Whitespace == {" ", "\n", "\t"}

DigitChars == {"0", "1", "2", "3", "4", "5", "6", "7", "8", "9"}

DigitVal(c) ==
    CASE c = "0" -> 0 [] c = "1" -> 1 [] c = "2" -> 2 [] c = "3" -> 3 [] c = "4" -> 4
      [] c = "5" -> 5 [] c = "6" -> 6 [] c = "7" -> 7 [] c = "8" -> 8 [] c = "9" -> 9

\* text[i:i+len(pat)] == pat, with i a 1-based position
MatchAt(text, i, pat) ==
    /\ i + Len(pat) - 1 <= Len(text)
    /\ SubSeq(text, i, i + Len(pat) - 1) = pat

Min(S) == CHOOSE x \in S : \A y \in S : x <= y
Max(S) == CHOOSE x \in S : \A y \in S : x >= y

\* the elements of a set of positions, in increasing order
Sorted(S) ==
    [k \in 1..Cardinality(S) |-> CHOOSE x \in S : Cardinality({y \in S : y <= x}) = k]

\* str.split(): the maximal runs of characters that are not whitespace
split_ws(text) ==
    LET starts == {i \in 1..Len(text) :
                     text[i] \notin Whitespace /\ (i = 1 \/ text[i - 1] \in Whitespace)}
        EndOf(i) == Min({j \in i..Len(text) : j = Len(text) \/ text[j + 1] \in Whitespace})
        order == Sorted(starts)
    IN  [k \in 1..Len(order) |-> SubSeq(text, order[k], EndOf(order[k]))]

\* str.split(sep): split on every occurrence of sep, found left to right,
\* each search starting after the occurrence before it
RECURSIVE SplitSepFrom(_, _, _, _)
SplitSepFrom(text, sep, start, acc) ==
    LET found == {i \in start..Len(text) : MatchAt(text, i, sep)}
    IN  IF found = {}
        THEN Append(acc, SubSeq(text, start, Len(text)))
        ELSE SplitSepFrom(text, sep, Min(found) + Len(sep),
                          Append(acc, SubSeq(text, start, Min(found) - 1)))

split(text, sep) == SplitSepFrom(text, sep, 1, <<>>)

\* str.strip(chars): up to the first and from the last character not in chars
strip(text, chars) ==
    LET kept == {i \in 1..Len(text) : text[i] \notin chars}
    IN  IF kept = {} THEN <<>> ELSE SubSeq(text, Min(kept), Max(kept))

\* str.join
RECURSIVE JoinFrom(_, _, _, _)
JoinFrom(parts, sep, k, acc) ==
    IF k > Len(parts) THEN acc
    ELSE JoinFrom(parts, sep, k + 1, acc \o sep \o parts[k])

join(sep, parts) == IF parts = <<>> THEN <<>> ELSE JoinFrom(parts, sep, 2, parts[1])

\* str.replace(old, new), old not empty: the occurrences str.split(old) finds
replace(text, old, new) == join(new, split(text, old))

\* str.lower() on the letters the queries use
LowerChar(c) ==
    CASE c = "A" -> "a" [] c = "B" -> "b" [] c = "C" -> "c" [] c = "D" -> "d"
      [] c = "E" -> "e" [] c = "F" -> "f" [] c = "G" -> "g" [] c = "H" -> "h"
      [] c = "I" -> "i" [] c = "J" -> "j" [] c = "K" -> "k" [] c = "L" -> "l"
      [] c = "M" -> "m" [] c = "N" -> "n" [] c = "O" -> "o" [] c = "P" -> "p"
      [] c = "Q" -> "q" [] c = "R" -> "r" [] c = "S" -> "s" [] c = "T" -> "t"
      [] c = "U" -> "u" [] c = "V" -> "v" [] c = "W" -> "w" [] c = "X" -> "x"
      [] c = "Y" -> "y" [] c = "Z" -> "z" [] OTHER -> c

lower(text) == [i \in 1..Len(text) |-> LowerChar(text[i])]

\* int(token) for a token without whitespace: an optional sign and decimal
\* digits; anything else is a ValueError
RECURSIVE DigitsValue(_, _)
DigitsValue(digits, acc) ==
    IF digits = <<>> THEN acc
    ELSE DigitsValue(Tail(digits), 10 * acc + DigitVal(Head(digits)))

AllDigits(text) == text # <<>> /\ \A i \in 1..Len(text) : text[i] \in DigitChars

int(token) ==
    LET signed == token # <<>> /\ Head(token) \in {"+", "-"}
        digits == IF signed THEN Tail(token) ELSE token
    IN  IF AllDigits(digits)
        THEN [exc |-> "None",
              val |-> IF signed /\ Head(token) = "-"
                      THEN 0 - DigitsValue(digits, 0)
                      ELSE DigitsValue(digits, 0)]
        ELSE [exc |-> "ValueError", val |-> 0]

\* ------------------------------------------------------------------------
\* utilities/reader.py
\* ------------------------------------------------------------------------

\* float('inf'): the repeat count of a query without a leading integer.  It
\* stands above every count the model's queries spell out.
Inf == 1000000

\* the value None of Board.turn and Piece.side; sides are integers >= 0
None == -1

Arrow == <<"-", ">">>

\* KEY_WORDS, in the dictionary's insertion order
KEY_WORDS ==
    << [convention |-> <<"U", "P">>, real |-> <<"B", "O", "A", "R", "D", ".", "U", "P">>],
       [convention |-> <<"D", "O", "W", "N">>, real |-> <<"B", "O", "A", "R", "D", ".", "D", "O", "W", "N">>],
       [convention |-> <<"R", "I", "G", "H", "T">>,
        real |-> <<"B", "O", "A", "R", "D", ".", "R", "I", "G", "H", "T">>],
       [convention |-> <<"L", "E", "F", "T">>, real |-> <<"B", "O", "A", "R", "D", ".", "L", "E", "F", "T">>],
       [convention |-> <<"P", "E", "A", "C", "E", "[">>,
        real |-> <<"B", "O", "A", "R", "D", ".", "p", "i", "e", "c", "e", "s", "[">>],
       [convention |-> <<"E", "N", "D">>,
        real |-> <<"B", "O", "A", "R", "D", ".", "e", "n", "d", "_", "p", "h", "a", "s", "e", "(", ")">>] >>

\* read_header: int(query.split()[0]), float('inf') on ValueError; an empty
\* token list is an IndexError, which the except clause does not catch
read_header(query) ==
    LET tokens == split_ws(query)
    IN  IF tokens = <<>>
        THEN [exc |-> "IndexError", val |-> 0]
        ELSE LET n == int(tokens[1])
             IN  [exc |-> "None", val |-> IF n.exc = "None" THEN n.val ELSE Inf]

\* resolve: the body is a TODO that returns True
resolve(query) == TRUE

\* read_repeatability: the second token, lowered, when it is one of f F t T;
\* every failure (no second token, the assert) is caught and gives 't'
read_repeatability(query) ==
    LET tokens == split_ws(query)
    IN  IF Len(tokens) >= 2 /\ tokens[2] \in {<<"f">>, <<"F">>, <<"t">>, <<"T">>}
        THEN lower(tokens[2])
        ELSE <<"t">>

\* a condition's value: int(input_value) when that parses, else the token
CondValue(token) ==
    LET n == int(token)
    IN  IF n.exc = "None"
        THEN [isint |-> TRUE, n |-> n.val, s |-> <<>>]
        ELSE [isint |-> FALSE, n |-> 0, s |-> token]

\* read_input that unpacks the first two tokens of a term and ignores the rest
read_input_lenient(query0) ==
    LET query == strip(query0, {"\n", " "})
        first == split(query, Arrow)[1]
        tokens == split_ws(first)
    IN  IF tokens = <<>>
        THEN [exc |-> "IndexError", conditions |-> <<>>, andifying |-> FALSE]
        ELSE
        LET number == tokens[1]
            input_query == SubSeq(first, Len(number) + 3, Len(first))
            anding == split(input_query, <<"&", "&">>)
            oring == split(input_query, <<"|", "|">>)
            andifying == Len(anding) > 1
            support == IF andifying THEN anding ELSE oring
            terms == [i \in 1..Len(support) |-> split_ws(strip(support[i], Whitespace))]
        IN  IF \E i \in 1..Len(terms) : Len(terms[i]) < 2
            THEN [exc |-> "ValueError", conditions |-> <<>>, andifying |-> andifying]
            ELSE [exc |-> "None",
                  conditions |-> [i \in 1..Len(terms) |->
                                    [type |-> terms[i][1], value |-> CondValue(terms[i][2])]],
                  andifying |-> andifying]

\* read_input that tests for `||` first: OR mode whenever the text has one
read_input_or_first(query0) ==
    LET query == strip(query0, {"\n", " "})
        first == split(query, Arrow)[1]
        tokens == split_ws(first)
    IN  IF tokens = <<>>
        THEN [exc |-> "IndexError", conditions |-> <<>>, andifying |-> FALSE]
        ELSE
        LET number == tokens[1]
            input_query == SubSeq(first, Len(number) + 3, Len(first))
            anding == split(input_query, <<"&", "&">>)
            oring == split(input_query, <<"|", "|">>)
            andifying == Len(oring) = 1 /\ Len(anding) > 1
            support == IF andifying THEN anding ELSE oring
            terms == [i \in 1..Len(support) |-> split_ws(strip(support[i], Whitespace))]
        IN  IF \E i \in 1..Len(terms) : Len(terms[i]) # 2
            THEN [exc |-> "ValueError", conditions |-> <<>>, andifying |-> andifying]
            ELSE [exc |-> "None",
                  conditions |-> [i \in 1..Len(terms) |->
                                    [type |-> terms[i][1], value |-> CondValue(terms[i][2])]],
                  andifying |-> andifying]

\* read_input
read_input(query0) ==
    LET query == strip(query0, {"\n", " "})
        first == split(query, Arrow)[1]
        tokens == split_ws(first)
    IN  IF tokens = <<>>
        THEN [exc |-> "IndexError", conditions |-> <<>>, andifying |-> FALSE]
        ELSE
        LET number == tokens[1]
            input_query == SubSeq(first, Len(number) + 3, Len(first))
            anding == split(input_query, <<"&", "&">>)
            oring == split(input_query, <<"|", "|">>)
            andifying == Len(anding) > 1
            support == IF andifying THEN anding ELSE oring
            terms == [i \in 1..Len(support) |-> split_ws(strip(support[i], Whitespace))]
        IN  IF \E i \in 1..Len(terms) : Len(terms[i]) # 2
            THEN [exc |-> "ValueError", conditions |-> <<>>, andifying |-> andifying]
            ELSE [exc |-> "None",
                  conditions |-> [i \in 1..Len(terms) |->
                                    [type |-> terms[i][1], value |-> CondValue(terms[i][2])]],
                  andifying |-> andifying]

RECURSIVE SubstituteFrom(_, _)
SubstituteFrom(text, k) ==
    IF k > Len(KEY_WORDS) THEN text
    ELSE SubstituteFrom(replace(text, KEY_WORDS[k].convention, KEY_WORDS[k].real), k + 1)

\* read_output that takes the whole query as the effect when it has no '->'
read_output_lenient(query) ==
    LET parts == split(query, Arrow)
    IN  [exc |-> "None", program |-> SubstituteFrom(strip(parts[Len(parts)], Whitespace), 1)]

\* read_output: the text after the first '->', stripped, every KEY_WORDS
\* convention replaced in turn; the result is the program the lambda execs.
\* A query without '->' fails in split(...)[1] and is re-raised as ValueError
read_output(query) ==
    LET parts == split(query, Arrow)
    IN  IF Len(parts) < 2
        THEN [exc |-> "ValueError", program |-> <<>>]
        ELSE [exc |-> "None", program |-> SubstituteFrom(strip(parts[2], Whitespace), 1)]

\* ------------------------------------------------------------------------
\* The input source: pygame's key and mouse state at the moment of a call.
\* An input snapshot is [keys: the key codes held down, mouse: the buttons
\* (0..2) held down, ticks: pg.time.get_ticks()].
\* ------------------------------------------------------------------------

Alphabet ==
    <<"a", "b", "c", "d", "e", "f", "g", "h", "i", "j", "k", "l", "m",
      "n", "o", "p", "q", "r", "s", "t", "u", "v", "w", "x", "y", "z">>

\* getattr(pg, "K_" + name) for a lowered name: pygame defines K_a .. K_z
\* (the letter's character code); every other lowered name is missing
PgKey(name) ==
    IF Len(name) = 1 /\ \E i \in 1..Len(Alphabet) : Alphabet[i] = name[1]
    THEN [exc |-> "None",
          code |-> 96 + (CHOOSE i \in 1..Len(Alphabet) : Alphabet[i] = name[1])]
    ELSE [exc |-> "AttributeError", code |-> 0]

\* the MOUSE<name> attributes pygame does define (event type numbers)
PgMouseNames ==
    { <<"M", "O", "T", "I", "O", "N">>,
      <<"B", "U", "T", "T", "O", "N", "D", "O", "W", "N">>,
      <<"B", "U", "T", "T", "O", "N", "U", "P">>,
      <<"W", "H", "E", "E", "L">> }

\* ------------------------------------------------------------------------
\* board/phase.py
\* ------------------------------------------------------------------------

\* the outcome of evaluating one condition: a raised exception, a truth
\* value, or the value None (a match statement that falls through)
Truth(b) == [exc |-> "None", val |-> b, none |-> FALSE]
Raise(e) == [exc |-> e, val |-> FALSE, none |-> FALSE]
NoneValue == [exc |-> "None", val |-> FALSE, none |-> TRUE]

\* Phase.__check_input
check_input(input_type, input, inp) ==
    CASE input_type = <<"K", "E", "Y">> ->
           IF input.isint
           THEN Truth(input.n \in inp.keys)
           ELSE LET key == PgKey(lower(input.s))
                IN  IF key.exc # "None" THEN Raise(key.exc)
                    ELSE Truth(key.code \in inp.keys)
      [] input_type = <<"M", "O", "U", "S", "E">> ->
           IF input.isint
           THEN IF input.n \in (-3)..2
                THEN Truth(((input.n + 3) % 3) \in inp.mouse)
                ELSE Raise("IndexError")
           ELSE IF input.s \in PgMouseNames THEN Raise("IndexError")
                ELSE Raise("AttributeError")
      [] input_type = <<"M", "O", "U", "S", "E", "_", "P", "O", "S">> ->
           Truth(FALSE)
      [] input_type = <<"T", "I", "M", "E">> ->
           IF input.isint THEN Truth(inp.ticks >= input.n) ELSE Raise("TypeError")
      [] input_type = <<"T", "E", "_", "L", "E", "S", "S", "_", "T", "H", "A", "N">> ->
           IF input.isint THEN Truth(inp.ticks - input.n < 0) ELSE Raise("TypeError")
      [] OTHER -> NoneValue

\* __bool__ whose AND mode does not break at a false condition: res ends as
\* the value of the last condition
RECURSIVE BoolFromNoBreak(_, _, _, _)
BoolFromNoBreak(phase, inp, k, res) ==
    IF k > Len(phase.conditions)
    THEN res
    ELSE LET c == phase.conditions[k]
             r == check_input(c.type, c.value, inp)
         IN  IF phase.andifying
             THEN IF r.exc # "None" THEN r
                  ELSE BoolFromNoBreak(phase, inp, k + 1, Truth(r.val))
             ELSE IF res.val
                  THEN BoolFromNoBreak(phase, inp, k + 1, res)
                  ELSE IF r.exc # "None" THEN r
                  ELSE BoolFromNoBreak(phase, inp, k + 1, r)

\* __bool__ whose OR mode assigns `res = check` for `res = res or check`
RECURSIVE BoolFromOverwrite(_, _, _, _)
BoolFromOverwrite(phase, inp, k, res) ==
    IF k > Len(phase.conditions)
    THEN res
    ELSE LET c == phase.conditions[k]
             r == check_input(c.type, c.value, inp)
         IN  IF r.exc # "None" THEN r
             ELSE IF phase.andifying
             THEN IF r.val THEN BoolFromOverwrite(phase, inp, k + 1, Truth(TRUE))
                  ELSE Truth(FALSE)
             ELSE BoolFromOverwrite(phase, inp, k + 1, r)

\* Phase.__bool__: the loop over the conditions, from condition k on, with
\* res the value of the variable res.  AND mode breaks at the first false
\* condition; OR mode is `res or check`, which does not evaluate the check
\* once res is true.
RECURSIVE BoolFrom(_, _, _, _)
BoolFrom(phase, inp, k, res) ==
    IF k > Len(phase.conditions)
    THEN res
    ELSE LET c == phase.conditions[k]
         IN  IF phase.andifying
             THEN LET r == check_input(c.type, c.value, inp)
                  IN  IF r.exc # "None" THEN r
                      ELSE IF r.val THEN BoolFrom(phase, inp, k + 1, Truth(TRUE))
                      ELSE Truth(FALSE)
             ELSE IF res.val
                  THEN BoolFrom(phase, inp, k + 1, res)
                  ELSE LET r == check_input(c.type, c.value, inp)
                       IN  IF r.exc # "None" THEN r
                           ELSE BoolFrom(phase, inp, k + 1, r)

\* `not self`: __bool__ must return a bool, a None result is a TypeError
Phase_bool(phase, inp) ==
    LET r == BoolFrom(phase, inp, 1, Truth(FALSE))
    IN  IF r.exc = "None" /\ r.none THEN Raise("TypeError") ELSE r

\* Phase.__init__
Phase(conditions, output, consumption_times, andifying, repeatable) ==
    [conditions |-> conditions,
     andifying |-> andifying,
     output |-> output,
     consumption_times |-> consumption_times,
     CT |-> consumption_times,
     repeatable |-> repeatable,
     last_iteration |-> FALSE,
     active |-> FALSE]

\* the body of the lambda Phase.null gives as output: the expression `...`
ProgEllipsis == <<".", ".", ".">>

\* Phase.null
null == Phase(<<>>, ProgEllipsis, 0, TRUE, FALSE)

\* Phase.from_query: the first reader that raises ends the call
from_query(query) ==
    IF ~resolve(query)
    THEN [exc |-> "None", phase |-> null]
    ELSE LET time == read_header(query)
             rep == read_repeatability(query)
             inp == read_input(query)
             acts == read_output(query)
         IN  IF time.exc # "None" THEN [exc |-> time.exc, phase |-> null]
             ELSE IF inp.exc # "None" THEN [exc |-> inp.exc, phase |-> null]
             ELSE IF acts.exc # "None" THEN [exc |-> acts.exc, phase |-> null]
             ELSE [exc |-> "None",
                   phase |-> Phase(inp.conditions, acts.program, time.val,
                                   inp.andifying, lower(rep) = <<"t">>)]

\* consumption_times -= 1 on a budget that is a large integer for inf
Decrement_finite(consumption_times) == consumption_times - 1

\* consumption_times -= 1 (inf - 1 is inf)
Decrement(consumption_times) ==
    IF consumption_times = Inf THEN Inf ELSE consumption_times - 1

\* ------------------------------------------------------------------------
\* The objects a call works on, as one record W:
\*   Board:  sides, turn, pieces (piece ids, in list order), game_phases, cp
\*   Piece:  piece_row (pos[0]), piece_side, set_side_calls (limit_calls)
\*   and what the call did, for the properties:
\*   runs[i]  effect runs of phase i since it was constructed or re-armed
\*   done[i]  phase i raised FinalRepException since then
\*   fired    effect runs during this call
\*   signals  the FinalRepExceptions raised during this call: the phase and
\*            its runs at that moment
\*   ended    end_phase invocations during this call
\*   rots     the turn rotations of this call, [from, to] each
\*   exc      the exception the call is raising, "None" if none
\* ------------------------------------------------------------------------

\* init_phase that also clears last_iteration
init_phase_clearing(W, i) ==
    [W EXCEPT !.game_phases[i].consumption_times = W.game_phases[i].CT,
              !.game_phases[i].last_iteration = FALSE,
              !.runs[i] = 0,
              !.done[i] = FALSE]

\* Phase.init_phase, on phase i (1-based) of the board
init_phase(W, i) ==
    [W EXCEPT !.game_phases[i].consumption_times = W.game_phases[i].CT,
              !.runs[i] = 0,
              !.done[i] = FALSE]

\* end_phase with the wrap test `>` for `>=`: the index is left one past the
\* last phase, and the subscript raises
end_phase_late_wrap(W) ==
    LET cp1 == W.cp + 1
        wraps == cp1 > Len(W.game_phases)
        W1 == [W EXCEPT !.ended = @ + 1, !.cp = IF wraps THEN 0 ELSE cp1]
    IN  IF W1.cp >= Len(W1.game_phases)
        THEN [W1 EXCEPT !.exc = "IndexError"]
        ELSE init_phase(W1, W1.cp + 1)

\* end_phase storing the index it computes in turn, not the side at that index
end_phase_index_turn(W) ==
    LET cp1 == W.cp + 1
        wraps == cp1 >= Len(W.game_phases)
        W1 == [W EXCEPT !.ended = @ + 1, !.cp = IF wraps THEN 0 ELSE cp1]
    IN  IF wraps /\ W.turn = None
        THEN [W1 EXCEPT !.exc = "TypeError"]
        ELSE LET next == IF wraps THEN (W.turn + 1) % Len(W.sides) ELSE W.turn
                 W2 == IF wraps
                       THEN [W1 EXCEPT !.turn = next,
                                       !.rots = Append(@, [from |-> W.turn, to |-> next])]
                       ELSE W1
             IN  IF W2.game_phases = <<>>
                 THEN [W2 EXCEPT !.exc = "IndexError"]
                 ELSE init_phase(W2, W2.cp + 1)

\* end_phase that calls init_phase only where the index did not wrap
end_phase_wrap_unarmed(W) ==
    LET cp1 == W.cp + 1
        wraps == cp1 >= Len(W.game_phases)
        W1 == [W EXCEPT !.ended = @ + 1, !.cp = IF wraps THEN 0 ELSE cp1]
    IN  IF wraps /\ W.turn = None
        THEN [W1 EXCEPT !.exc = "TypeError"]
        ELSE LET next == IF wraps
                         THEN W.sides[((W.turn + 1) % Len(W.sides)) + 1]
                         ELSE W.turn
                 W2 == IF wraps
                       THEN [W1 EXCEPT !.turn = next,
                                       !.rots = Append(@, [from |-> W.turn, to |-> next])]
                       ELSE W1
             IN  IF W2.game_phases = <<>>
                 THEN [W2 EXCEPT !.exc = "IndexError"]
                 ELSE IF wraps THEN W2
                 ELSE init_phase(W2, W2.cp + 1)

\* Board.end_phase
end_phase(W) ==
    LET cp1 == W.cp + 1
        wraps == cp1 >= Len(W.game_phases)
        W1 == [W EXCEPT !.ended = @ + 1, !.cp = IF wraps THEN 0 ELSE cp1]
    IN  IF wraps /\ W.turn = None
        THEN [W1 EXCEPT !.exc = "TypeError"]
        ELSE LET next == IF wraps
                         THEN W.sides[((W.turn + 1) % Len(W.sides)) + 1]
                         ELSE W.turn
                 W2 == IF wraps
                       THEN [W1 EXCEPT !.turn = next,
                                       !.rots = Append(@, [from |-> W.turn, to |-> next])]
                       ELSE W1
             IN  IF W2.game_phases = <<>>
                 THEN [W2 EXCEPT !.exc = "IndexError"]
                 ELSE init_phase(W2, W2.cp + 1)

\* Piece.move on BOARD.pieces[index], rows only (UP and DOWN leave the column)
move(W, index, step) ==
    IF index >= Len(W.pieces)
    THEN [W EXCEPT !.exc = "IndexError"]
    ELSE [W EXCEPT !.piece_row[W.pieces[index + 1]] = @ + step]

\* the effect programs of the model's queries, as read_output leaves them
ProgMoveUp == <<"B", "O", "A", "R", "D", ".", "p", "i", "e", "c", "e", "s", "[", "0", "]", ".", "m", "o", "v", "e", "(", "B", "O", "A", "R", "D", ".", "U", "P", ")">>

ProgMoveDown == <<"B", "O", "A", "R", "D", ".", "p", "i", "e", "c", "e", "s", "[", "0", "]", ".", "m", "o", "v", "e", "(", "B", "O", "A", "R", "D", ".", "D", "O", "W", "N", ")">>

ProgEnd == <<"B", "O", "A", "R", "D", ".", "e", "n", "d", "_", "p", "h", "a", "s", "e", "(", ")">>

ProgMoveUpEndAtRow0 ==
    <<"B", "O", "A", "R", "D", ".", "p", "i", "e", "c", "e", "s", "[", "0", "]", ".", "m", "o", "v", "e", "(", "B", "O", "A", "R", "D", ".", "U", "P", ")", "\n", "i", "f", " ", "B", "O", "A", "R", "D", ".", "p", "i", "e", "c", "e", "s", "[", "0", "]", ".", "r", "o", "w", " ", "=", "=", " ", "0", ":", " ", "\n", " ", " ", " ", " ", "B", "O", "A", "R", "D", ".", "e", "n", "d", "_", "p", "h", "a", "s", "e", "(", ")">>

\* the programs of effects on a piece the board does not have: `PEACE[9]`,
\* which read_output rewrites, and `PIECE[9]`, which it leaves as it is
ProgMoveUp9 == <<"B", "O", "A", "R", "D", ".", "p", "i", "e", "c", "e", "s", "[", "9", "]", ".", "m", "o", "v", "e", "(", "B", "O", "A", "R", "D", ".", "U", "P", ")">>

ProgPieceMoveUp9 == <<"P", "I", "E", "C", "E", "[", "9", "]", ".", "m", "o", "v", "e", "(", "B", "O", "A", "R", "D", ".", "U", "P", ")">>

\* exec(query) in the lambda read_output returns, for those programs
\* (Board.UP is (-1, 0) and Board.DOWN is (1, 0)); other text does not run
exec(W, program) ==
    CASE program = ProgEllipsis -> W
      [] program = ProgMoveUp -> move(W, 0, -1)
      [] program = ProgMoveDown -> move(W, 0, 1)
      [] program = ProgEnd -> end_phase(W)
      [] program = ProgMoveUp9 -> move(W, 9, -1)
      [] program = ProgPieceMoveUp9 -> [W EXCEPT !.exc = "NameError"]
      [] program = ProgMoveUpEndAtRow0 ->
           LET W1 == move(W, 0, -1)
           IN  IF W1.exc # "None" THEN W1
               ELSE IF W1.piece_row[W1.pieces[1]] = 0 THEN end_phase(W1)
               ELSE W1
      [] OTHER -> [W EXCEPT !.exc = "SyntaxError"]

\* the call self.__output(*args, **kwargs) of phase i
run_output(W, i) ==
    exec([W EXCEPT !.runs[i] = @ + 1, !.fired = @ + 1], W.game_phases[i].output)

\* __execute that tests the budget with `<= 0` before the effect: the last
\* unit of the budget raises without running it
Phase_execute_early_raise(W, i, inp) ==
    LET phase == W.game_phases[i]
        self == Phase_bool(phase, inp)
    IN  IF self.exc # "None"
        THEN [W EXCEPT !.exc = self.exc]
        ELSE IF ~self.val
        THEN [W EXCEPT !.game_phases[i].last_iteration = FALSE]
        ELSE IF ~phase.repeatable /\ phase.last_iteration
        THEN W
        ELSE
        LET left == Decrement(phase.consumption_times)
            W1 == [W EXCEPT !.game_phases[i].consumption_times = left]
        IN  IF left <= 0
            THEN [W1 EXCEPT !.game_phases[i].active = FALSE,
                            !.done[i] = TRUE,
                            !.signals = Append(@, [phase |-> i, runs |-> W1.runs[i]]),
                            !.exc = "FinalRepException"]
            ELSE run_output([W1 EXCEPT !.game_phases[i].last_iteration = TRUE], i)

\* __execute that decrements the budget before it tests the condition group
Phase_execute_charging_false(W, i, inp) ==
    LET phase == W.game_phases[i]
        self == Phase_bool(phase, inp)
    IN  IF self.exc # "None"
        THEN [W EXCEPT !.exc = self.exc]
        ELSE IF ~self.val
        THEN [W EXCEPT !.game_phases[i].last_iteration = FALSE,
                       !.game_phases[i].consumption_times = Decrement(@)]
        ELSE IF ~phase.repeatable /\ phase.last_iteration
        THEN W
        ELSE
        LET left == Decrement(phase.consumption_times)
            W1 == [W EXCEPT !.game_phases[i].consumption_times = left]
        IN  IF left < 0
            THEN [W1 EXCEPT !.game_phases[i].active = FALSE,
                            !.done[i] = TRUE,
                            !.signals = Append(@, [phase |-> i, runs |-> W1.runs[i]]),
                            !.exc = "FinalRepException"]
            ELSE IF left = 0
            THEN LET W2 == run_output([W1 EXCEPT !.game_phases[i].last_iteration = TRUE], i)
                 IN  IF W2.exc # "None" THEN W2
                     ELSE [W2 EXCEPT !.done[i] = TRUE,
                                     !.signals = Append(@, [phase |-> i, runs |-> W2.runs[i]]),
                                     !.exc = "FinalRepException"]
            ELSE run_output([W1 EXCEPT !.game_phases[i].last_iteration = TRUE], i)

\* __execute that returns on a false condition group without clearing
\* last_iteration
Phase_execute_latching(W, i, inp) ==
    LET phase == W.game_phases[i]
        self == Phase_bool(phase, inp)
    IN  IF self.exc # "None"
        THEN [W EXCEPT !.exc = self.exc]
        ELSE IF ~self.val
        THEN W
        ELSE IF ~phase.repeatable /\ phase.last_iteration
        THEN W
        ELSE
        LET left == Decrement(phase.consumption_times)
            W1 == [W EXCEPT !.game_phases[i].consumption_times = left]
        IN  IF left < 0
            THEN [W1 EXCEPT !.game_phases[i].active = FALSE,
                            !.done[i] = TRUE,
                            !.signals = Append(@, [phase |-> i, runs |-> W1.runs[i]]),
                            !.exc = "FinalRepException"]
            ELSE IF left = 0
            THEN LET W2 == run_output([W1 EXCEPT !.game_phases[i].last_iteration = TRUE], i)
                 IN  IF W2.exc # "None" THEN W2
                     ELSE [W2 EXCEPT !.done[i] = TRUE,
                                     !.signals = Append(@, [phase |-> i, runs |-> W2.runs[i]]),
                                     !.exc = "FinalRepException"]
            ELSE run_output([W1 EXCEPT !.game_phases[i].last_iteration = TRUE], i)

\* Phase.__execute, on phase i (1-based) of the board
Phase_execute(W, i, inp) ==
    LET phase == W.game_phases[i]
        self == Phase_bool(phase, inp)
    IN  IF self.exc # "None"
        THEN [W EXCEPT !.exc = self.exc]
        ELSE IF ~self.val
        THEN [W EXCEPT !.game_phases[i].last_iteration = FALSE]
        ELSE IF ~phase.repeatable /\ phase.last_iteration
        THEN W
        ELSE
        LET left == Decrement(phase.consumption_times)
            W1 == [W EXCEPT !.game_phases[i].consumption_times = left]
        IN  IF left < 0
            THEN [W1 EXCEPT !.game_phases[i].active = FALSE,
                            !.done[i] = TRUE,
                            !.signals = Append(@, [phase |-> i, runs |-> W1.runs[i]]),
                            !.exc = "FinalRepException"]
            ELSE IF left = 0
            THEN LET W2 == run_output([W1 EXCEPT !.game_phases[i].last_iteration = TRUE], i)
                 IN  IF W2.exc # "None" THEN W2
                     ELSE [W2 EXCEPT !.done[i] = TRUE,
                                     !.signals = Append(@, [phase |-> i, runs |-> W2.runs[i]]),
                                     !.exc = "FinalRepException"]
            ELSE run_output([W1 EXCEPT !.game_phases[i].last_iteration = TRUE], i)

\* ------------------------------------------------------------------------
\* The queries of the model.  QMain1 and QOr2T are phase1 and phase2 of
\* main.py; the others vary the repeat count, the flag and the condition
\* group of the same forms.
\* ------------------------------------------------------------------------

\* '0 t KEY k -> PEACE[0].move(UP)'
QUp0T ==
    <<"0", " ", "t", " ", "K", "E", "Y", " ", "k", " ", "-", ">", " ", "P", "E", "A", "C", "E",
      "[", "0", "]", ".", "m", "o", "v", "e", "(", "U", "P", ")">>

\* '1 f KEY k -> PEACE[0].move(UP)'
QUp1F ==
    <<"1", " ", "f", " ", "K", "E", "Y", " ", "k", " ", "-", ">", " ", "P", "E", "A", "C", "E",
      "[", "0", "]", ".", "m", "o", "v", "e", "(", "U", "P", ")">>

\* '1 T KEY k -> PEACE[0].move(UP)'
QUp1T ==
    <<"1", " ", "T", " ", "K", "E", "Y", " ", "k", " ", "-", ">", " ", "P", "E", "A", "C", "E",
      "[", "0", "]", ".", "m", "o", "v", "e", "(", "U", "P", ")">>

\* '2 T KEY k -> PEACE[0].move(UP)'
QUp2T ==
    <<"2", " ", "T", " ", "K", "E", "Y", " ", "k", " ", "-", ">", " ", "P", "E", "A", "C", "E",
      "[", "0", "]", ".", "m", "o", "v", "e", "(", "U", "P", ")">>

\* '2 F KEY k -> PEACE[0].move(UP)'
QUp2F ==
    <<"2", " ", "F", " ", "K", "E", "Y", " ", "k", " ", "-", ">", " ", "P", "E", "A", "C", "E",
      "[", "0", "]", ".", "m", "o", "v", "e", "(", "U", "P", ")">>

\* '2 T KEY k && KEY f -> PEACE[0].move(DOWN)'
QAnd2T ==
    <<"2", " ", "T", " ", "K", "E", "Y", " ", "k", " ", "&", "&", " ", "K", "E", "Y", " ", "f",
      " ", "-", ">", " ", "P", "E", "A", "C", "E", "[", "0", "]", ".", "m", "o", "v", "e", "(",
      "D", "O", "W", "N", ")">>

\* '2 F KEY k && KEY f -> PEACE[0].move(DOWN)'
QAnd2F ==
    <<"2", " ", "F", " ", "K", "E", "Y", " ", "k", " ", "&", "&", " ", "K", "E", "Y", " ", "f",
      " ", "-", ">", " ", "P", "E", "A", "C", "E", "[", "0", "]", ".", "m", "o", "v", "e", "(",
      "D", "O", "W", "N", ")">>

\* '\n2 T KEY f || MOUSE 2 ->\nPEACE[0].move(DOWN)\n'
QOr2T ==
    <<"\n", "2", " ", "T", " ", "K", "E", "Y", " ", "f", " ", "|", "|", " ", "M", "O", "U",
      "S", "E", " ", "2", " ", "-", ">", "\n", "P", "E", "A", "C", "E", "[", "0", "]", ".",
      "m", "o", "v", "e", "(", "D", "O", "W", "N", ")", "\n">>

\* '3 t KEY k || KEY f || MOUSE 2 -> PEACE[0].move(DOWN)'
QOr3T ==
    <<"3", " ", "t", " ", "K", "E", "Y", " ", "k", " ", "|", "|", " ", "K", "E", "Y", " ", "f",
      " ", "|", "|", " ", "M", "O", "U", "S", "E", " ", "2", " ", "-", ">", " ", "P", "E", "A",
      "C", "E", "[", "0", "]", ".", "m", "o", "v", "e", "(", "D", "O", "W", "N", ")">>

\* '1 T KEY k -> END'
QEnd1T ==
    <<"1", " ", "T", " ", "K", "E", "Y", " ", "k", " ", "-", ">", " ", "E", "N", "D">>

\* '\nmm F KEY k  -> \nPEACE[0].move(UP)\nif PEACE[0].row == 0: \n    END'
QMain1 ==
    <<"\n", "m", "m", " ", "F", " ", "K", "E", "Y", " ", "k", " ", " ", "-", ">", " ", "\n",
      "P", "E", "A", "C", "E", "[", "0", "]", ".", "m", "o", "v", "e", "(", "U", "P", ")",
      "\n", "i", "f", " ", "P", "E", "A", "C", "E", "[", "0", "]", ".", "r", "o", "w", " ",
      "=", "=", " ", "0", ":", " ", "\n", " ", " ", " ", " ", "E", "N", "D">>

\* 'mm T KEY k -> PEACE[0].move(UP)'
QUpInfT ==
    <<"m", "m", " ", "T", " ", "K", "E", "Y", " ", "k", " ", "-", ">", " ", "P", "E", "A", "C",
      "E", "[", "0", "]", ".", "m", "o", "v", "e", "(", "U", "P", ")">>

\* queries on a piece the board does not have, and on names pygame does
\* not define (K_zz, MOUSELEFT)

\* '1 T KEY k -> PEACE[9].move(UP)'
QPeace9 ==
    <<"1", " ", "T", " ", "K", "E", "Y", " ", "k", " ", "-", ">", " ", "P", "E", "A", "C", "E",
      "[", "9", "]", ".", "m", "o", "v", "e", "(", "U", "P", ")">>

\* '1 T KEY k -> PIECE[9].move(UP)'
QPiece9 ==
    <<"1", " ", "T", " ", "K", "E", "Y", " ", "k", " ", "-", ">", " ", "P", "I", "E", "C", "E",
      "[", "9", "]", ".", "m", "o", "v", "e", "(", "U", "P", ")">>

\* '1 T KEY zz -> PEACE[0].move(UP)'
QBadKey ==
    <<"1", " ", "T", " ", "K", "E", "Y", " ", "z", "z", " ", "-", ">", " ", "P", "E", "A", "C",
      "E", "[", "0", "]", ".", "m", "o", "v", "e", "(", "U", "P", ")">>

\* '1 T MOUSE LEFT -> PEACE[0].move(UP)'
QBadMouse ==
    <<"1", " ", "T", " ", "M", "O", "U", "S", "E", " ", "L", "E", "F", "T", " ", "-", ">", " ",
      "P", "E", "A", "C", "E", "[", "0", "]", ".", "m", "o", "v", "e", "(", "U", "P", ")">>

\* ------------------------------------------------------------------------
\* Queries by their parts, for the readers: a header (repeat count and flag,
\* or none), a condition group and an effect, each with its text and with
\* what the grammar says it means
\* ------------------------------------------------------------------------

\* a query with no header: the budget is unlimited and the flag defaults to t
NoHeader ==
    [present |-> FALSE, count |-> <<>>, flag |-> <<>>, budget |-> Inf, repeatable |-> TRUE]

Headers ==
    {NoHeader,
     [present |-> TRUE, count |-> <<"2">>, flag |-> <<"T">>, budget |-> 2, repeatable |-> TRUE],
     [present |-> TRUE, count |-> <<"2">>, flag |-> <<"f">>, budget |-> 2, repeatable |-> FALSE],
     [present |-> TRUE, count |-> <<"0">>, flag |-> <<"T">>, budget |-> 0, repeatable |-> TRUE],
     [present |-> TRUE, count |-> <<"0">>, flag |-> <<"f">>, budget |-> 0, repeatable |-> FALSE],
     [present |-> TRUE, count |-> <<"1", "0">>, flag |-> <<"T">>, budget |-> 10, repeatable |-> TRUE],
     [present |-> TRUE, count |-> <<"1", "0">>, flag |-> <<"f">>, budget |-> 10, repeatable |-> FALSE]}

\* terms are the condition terms of the group (split on && where the text
\* has one, on || otherwise), each as its whitespace-separated tokens
Groups ==
    {\* 'KEY k'
     [text |-> <<"K", "E", "Y", " ", "k">>,
      andifying |-> FALSE, mixed |-> FALSE,
      terms |-> <<<<<<"K", "E", "Y">>, <<"k">>>>>>],
     \* 'KEY k && KEY f'
     [text |-> <<"K", "E", "Y", " ", "k", " ", "&", "&", " ", "K", "E", "Y", " ", "f">>,
      andifying |-> TRUE, mixed |-> FALSE,
      terms |-> <<<<<<"K", "E", "Y">>, <<"k">>>>, <<<<"K", "E", "Y">>, <<"f">>>>>>],
     \* 'KEY f || MOUSE 2'
     [text |-> <<"K", "E", "Y", " ", "f", " ", "|", "|", " ", "M", "O", "U", "S", "E", " ", "2">>,
      andifying |-> FALSE, mixed |-> FALSE,
      terms |-> <<<<<<"K", "E", "Y">>, <<"f">>>>, <<<<"M", "O", "U", "S", "E">>, <<"2">>>>>>],
     \* 'KEY k && KEY f || MOUSE 2'
     [text |-> <<"K", "E", "Y", " ", "k", " ", "&", "&", " ", "K", "E", "Y", " ", "f", " ", "|", "|", " ", "M", "O", "U", "S", "E", " ", "2">>,
      andifying |-> TRUE, mixed |-> TRUE,
      terms |-> <<<<<<"K", "E", "Y">>, <<"k">>>>, <<<<"K", "E", "Y">>, <<"f">>, <<"|", "|">>, <<"M", "O", "U", "S", "E">>, <<"2">>>>>>],
     \* 'KEY a||b && KEY f'
     [text |-> <<"K", "E", "Y", " ", "a", "|", "|", "b", " ", "&", "&", " ", "K", "E", "Y", " ", "f">>,
      andifying |-> TRUE, mixed |-> TRUE,
      terms |-> <<<<<<"K", "E", "Y">>, <<"a", "|", "|", "b">>>>, <<<<"K", "E", "Y">>, <<"f">>>>>>],
     \* 'KEY'
     [text |-> <<"K", "E", "Y">>,
      andifying |-> FALSE, mixed |-> FALSE,
      terms |-> <<<<<<"K", "E", "Y">>>>>>],
     \* 'KEY k extra'
     [text |-> <<"K", "E", "Y", " ", "k", " ", "e", "x", "t", "r", "a">>,
      andifying |-> FALSE, mixed |-> FALSE,
      terms |-> <<<<<<"K", "E", "Y">>, <<"k">>, <<"e", "x", "t", "r", "a">>>>>>],
     \* 'KEY k && KEY'
     [text |-> <<"K", "E", "Y", " ", "k", " ", "&", "&", " ", "K", "E", "Y">>,
      andifying |-> TRUE, mixed |-> FALSE,
      terms |-> <<<<<<"K", "E", "Y">>, <<"k">>>>, <<<<"K", "E", "Y">>>>>>]}

\* arrow says whether the text has a `->`; program is the effect text after
\* the keyword substitution
Effects ==
    {[text |-> <<"-", ">", " ", "P", "E", "A", "C", "E", "[", "0", "]", ".", "m", "o", "v", "e", "(", "U", "P", ")">>,
      arrow |-> TRUE, program |-> ProgMoveUp],
     [text |-> <<"-", ">", " ", "E", "N", "D">>,
      arrow |-> TRUE, program |-> ProgEnd],
     [text |-> <<"-", ">">>,
      arrow |-> TRUE, program |-> <<>>],
     [text |-> <<"P", "E", "A", "C", "E", "[", "0", "]", ".", "m", "o", "v", "e", "(", "U", "P", ")">>,
      arrow |-> FALSE, program |-> <<>>]}

\* the text of a query made of the three parts
Render(header, group, effect) ==
    (IF header.present THEN header.count \o <<" ">> \o header.flag \o <<" ">> ELSE <<>>)
        \o group.text \o <<" ">> \o effect.text

ComposedQueries ==
    {[composed |-> TRUE, header |-> h, group |-> g, effect |-> e, text |-> Render(h, g, e)] :
        h \in Headers, g \in Groups, e \in Effects}

NoGroup == [text |-> <<>>, andifying |-> FALSE, mixed |-> FALSE, terms |-> <<>>]
NoEffect == [text |-> <<>>, arrow |-> FALSE, program |-> <<>>]

\* queries with no token at all: '', '   ' and '\n'
BlankQueries ==
    {[composed |-> FALSE, header |-> NoHeader, group |-> NoGroup, effect |-> NoEffect, text |-> t] :
        t \in {<<>>, <<" ", " ", " ">>, <<"\n">>}}

ReaderQueries == ComposedQueries \cup BlankQueries

AllQueries ==
    {QUp0T, QUp1F, QUp1T, QUp2T, QUp2F, QAnd2T, QAnd2F, QOr2T, QOr3T, QEnd1T, QMain1,
     QPeace9, QPiece9, QBadKey, QBadMouse, QUpInfT}
        \cup {q.text : q \in ReaderQueries}

\* ------------------------------------------------------------------------
\* board/board.py
\* ------------------------------------------------------------------------

Range(seq) == {seq[i] : i \in 1..Len(seq)}

\* Board.__add_side
add_side(W, side) ==
    [W EXCEPT !.sides = Append(@, side),
              !.turn = IF W.turn = None THEN side ELSE W.turn]

\* the loop of Board.add_piece: Piece.set_side under limit_calls(1), then
\* Board.__add_1p
RECURSIVE add_pieces(_, _, _)
add_pieces(W, side, new_pieces) ==
    IF new_pieces = <<>>
    THEN W
    ELSE LET piece == Head(new_pieces)
         IN  IF W.set_side_calls[piece] >= 1
             THEN [W EXCEPT !.exc = "MaximumCallsReachedError"]
             ELSE add_pieces([W EXCEPT !.set_side_calls[piece] = @ + 1,
                                       !.piece_side[piece] = side,
                                       !.pieces = Append(@, piece)],
                             side, Tail(new_pieces))

\* Board.add_piece
add_piece(W, side, new_pieces) ==
    IF side \in Range(W.sides)
    THEN [W EXCEPT !.exc = "SideAlreadySetError"]
    ELSE add_pieces(add_side(W, side), side, new_pieces)

\* appending a phase to Board.__game_phases
append_phase(W, phase) ==
    [W EXCEPT !.game_phases = Append(@, phase),
              !.runs = Append(@, 0),
              !.done = Append(@, FALSE)]

\* Phase.from_query on each query of the model, computed once
Parsed == [query \in AllQueries |-> from_query(query)]

\* Board.add_phase
add_phase(W, query) ==
    LET made == Parsed[query]
    IN  IF made.exc # "None" THEN [W EXCEPT !.exc = made.exc]
        ELSE append_phase(W, made.phase)

\* execute without the try/except: FinalRepException leaves the call
execute_propagating(W, inp) ==
    IF W.game_phases = <<>>
    THEN W
    ELSE Phase_execute(W, W.cp + 1, inp)

\* execute that catches FinalRepException and does not call end_phase
execute_swallowing(W, inp) ==
    IF W.game_phases = <<>>
    THEN W
    ELSE LET W1 == Phase_execute(W, W.cp + 1, inp)
         IN  IF W1.exc = "FinalRepException"
             THEN [W1 EXCEPT !.exc = "None"]
             ELSE W1

\* Board.execute
execute(W, inp) ==
    IF W.game_phases = <<>>
    THEN W
    ELSE LET W1 == Phase_execute(W, W.cp + 1, inp)
         IN  IF W1.exc = "FinalRepException"
             THEN end_phase([W1 EXCEPT !.exc = "None"])
             ELSE W1

\* ------------------------------------------------------------------------
\* Bounds
\* ------------------------------------------------------------------------

\* phases a board is given under Spec, and under PhaseSpec and ScenarioSpec
MaxPhases == 2
MaxSoloPhases == 1

\* execute is not called once a piece is this far above or below its first row
MaxMoves == 2

\* the row the pieces of Init are constructed at: MaxMoves below row 0
FirstRow == MaxMoves

\* execute is not called once a phase has run its effect this often since it
\* was armed
MaxRuns == 2

\* execute is not called once a budget is this far below zero
MaxOverdraw == 1

\* execute calls of the scenario
MaxTicks == 3

\* the row the scenario's piece is constructed at (TPiece(4, 0) in main.py)
StartRow == 4

\* the sides add_piece is called with, and the piece objects of the program
Sides == {0, 1}
PieceIds == {1}

\* the piece lists of an add_piece call: no piece, or one
PieceLists == {<<>>} \cup {<<a>> : a \in PieceIds}

KeyK == PgKey(<<"k">>).code
KeyF == PgKey(<<"f">>).code

\* input snapshots: the keys k and f and the mouse button 2, held or not
Inputs == [keys : SUBSET {KeyK, KeyF}, mouse : SUBSET {2}, ticks : {0}]

\* input snapshots for queries that only look at the key k
KeyKInputs == [keys : SUBSET {KeyK}, mouse : {{}}, ticks : {0}]

NoInput == [keys |-> {}, mouse |-> {}, ticks |-> 0]

\* ------------------------------------------------------------------------
\* State
\* ------------------------------------------------------------------------

VARIABLES
    sides, turn, pieces, game_phases, cp,      \* Board
    piece_row, piece_side, set_side_calls,     \* Piece, by piece id
    runs, done,                                \* per phase, see W above
    streak,                                    \* per phase: its effect has run since
                                               \* it was last invoked with a false condition
    call,                                      \* the last call and what it did
    tick, tick_log,                            \* the scenario's ticks so far
    asked, read,                               \* the query in hand, and the last
                                               \* reader applied to it with its result
    file, pos, pc,                             \* Phase.from_file: the lines of the file,
    head_line, line, phase_query, L,           \* how many are read, the position in the
                                               \* code, and its locals (head_line is c)
    cache, metadata, max_size, current_size,   \* ResourceCache: the keys of __cache and the
                                               \* items of __metadata, in insertion order
    clock, last_used, cache_call,              \* calls on the cache so far, the call that
                                               \* last put or got each key, the last call
    animations, priorities, state, wait,       \* AnimationSet, with the fields of each
    reset, frame_speed,                        \* Animation under its key
    requested, shown                           \* the state the caller asks generate for,
                                               \* and the frame generate last returned

boardVars == <<sides, turn, pieces, game_phases, cp, piece_row, piece_side,
               set_side_calls, runs, done, streak, call>>
tickVars == <<tick, tick_log>>
readerVars == <<asked, read>>
fileVars == <<file, pos, pc, head_line, line, phase_query, L>>
cacheVars == <<cache, metadata, max_size, current_size, clock, last_used, cache_call>>
animVars == <<animations, priorities, state, wait, reset, frame_speed, requested, shown>>
libVars == <<fileVars, cacheVars, animVars>>
vars == <<boardVars, tickVars, readerVars, libVars>>

\* from_file has not been called
FileIdle ==
    /\ file = <<>>
    /\ pos = 0
    /\ pc = "idle"
    /\ head_line = <<>>
    /\ line = <<>>
    /\ phase_query = <<>>
    /\ L = <<>>

\* the keys resources are cached under
CacheKeys == {"a", "b", "c"}

\* max_size of ResourceCache.__init__ when none is given: 100 * 1024 * 1024
DefaultMaxSize == 104857600

\* ResourceCache.__init__(max_size)
CacheNew(size) ==
    /\ cache = <<>>
    /\ metadata = <<>>
    /\ max_size = size
    /\ current_size = 0
    /\ clock = 0
    /\ last_used = [key \in CacheKeys |-> 0]
    /\ cache_call = [op |-> "init", key |-> "", evicted |-> <<>>, stored |-> FALSE]

\* no AnimationSet has been constructed
AnimIdle ==
    /\ animations = <<>>
    /\ priorities = <<>>
    /\ state = None
    /\ wait = None
    /\ reset = FALSE
    /\ frame_speed = 0
    /\ requested = None
    /\ shown = None

\* nothing outside the board has been called
LibIdle == FileIdle /\ CacheNew(DefaultMaxSize) /\ AnimIdle

\* no query in hand, no reader applied
NoQuery ==
    [composed |-> FALSE, header |-> NoHeader, group |-> NoGroup, effect |-> NoEffect, text |-> <<>>]
NoRead == [reader |-> "none"]

\* the objects as they are before a call
World ==
    [sides |-> sides, turn |-> turn, pieces |-> pieces, game_phases |-> game_phases,
     cp |-> cp, piece_row |-> piece_row, piece_side |-> piece_side,
     set_side_calls |-> set_side_calls, runs |-> runs, done |-> done,
     fired |-> 0, signals |-> <<>>, ended |-> 0, rots |-> <<>>, exc |-> "None"]

\* the truth of one condition under an input, with an exception counting as
\* false
Holds(c, inp) == check_input(c.type, c.value, inp).val

\* what the condition group of a phase asks of an input: every condition in
\* AND mode, one of them in OR mode
GroupHolds(phase, inp) ==
    IF phase.andifying
    THEN /\ phase.conditions # <<>>
         /\ \A k \in 1..Len(phase.conditions) : Holds(phase.conditions[k], inp)
    ELSE \E k \in 1..Len(phase.conditions) : Holds(phase.conditions[k], inp)

\* the phase's condition group evaluates without raising, and to false
GroupFalse(phase, inp) ==
    /\ Phase_bool(phase, inp).exc = "None"
    /\ ~GroupHolds(phase, inp)

\* streak after a call: set where the phase that was current ran its effect,
\* cleared where it was invoked with a false condition group
StreakAfter(W, op, inp) ==
    [i \in 1..Len(W.game_phases) |->
        IF i > Len(game_phases) THEN FALSE
        ELSE IF op = "execute" /\ i = cp + 1
             THEN IF W.fired > 0 THEN TRUE
                  ELSE IF GroupFalse(game_phases[i], inp) THEN FALSE
                  ELSE streak[i]
             ELSE streak[i]]

\* the objects as a call leaves them, and the record of the call: what was
\* called with which input, the current phase and the turn it started from,
\* and what it did
Becomes(W, op, inp) ==
    /\ sides' = W.sides
    /\ turn' = W.turn
    /\ pieces' = W.pieces
    /\ game_phases' = W.game_phases
    /\ cp' = W.cp
    /\ piece_row' = W.piece_row
    /\ piece_side' = W.piece_side
    /\ set_side_calls' = W.set_side_calls
    /\ runs' = W.runs
    /\ done' = W.done
    /\ streak' = StreakAfter(W, op, inp)
    /\ call' = [op |-> op, inp |-> inp,
                cp0 |-> cp, turn0 |-> turn, len0 |-> Len(game_phases),
                phase0 |-> IF cp < Len(game_phases) THEN game_phases[cp + 1] ELSE null,
                streak0 |-> IF cp < Len(game_phases) THEN streak[cp + 1] ELSE FALSE,
                fired |-> W.fired, signals |-> W.signals, ended |-> W.ended,
                rots |-> W.rots, exc |-> W.exc]

\* Board.__init__, and the pieces the program has constructed
Init ==
    /\ sides = <<>>
    /\ turn = None
    /\ pieces = <<>>
    /\ game_phases = <<>>
    /\ cp = 0
    /\ piece_row = [p \in PieceIds |-> FirstRow]
    /\ piece_side = [p \in PieceIds |-> None]
    /\ set_side_calls = [p \in PieceIds |-> 0]
    /\ runs = <<>>
    /\ done = <<>>
    /\ streak = <<>>
    /\ call = [op |-> "init", inp |-> NoInput, cp0 |-> 0, turn0 |-> None, len0 |-> 0,
               phase0 |-> null, streak0 |-> FALSE, fired |-> 0, signals |-> <<>>,
               ended |-> 0, rots |-> <<>>, exc |-> "None"]
    /\ tick = 0
    /\ tick_log = <<>>
    /\ asked = NoQuery
    /\ read = NoRead
    /\ LibIdle

\* the model calls execute only within its bounds
WithinBounds ==
    /\ \A p \in PieceIds : piece_row[p] \in (FirstRow - MaxMoves)..(FirstRow + MaxMoves)
    /\ \A i \in 1..Len(game_phases) :
          /\ game_phases[i].consumption_times >= 0 - MaxOverdraw
          /\ runs[i] <= MaxRuns

\* ------------------------------------------------------------------------
\* Actions: one per call on the board
\* ------------------------------------------------------------------------

AddPiece(side, new_pieces) ==
    /\ Becomes(add_piece(World, side, new_pieces), "add_piece", NoInput)
    /\ UNCHANGED <<tickVars, readerVars, libVars>>

AddPhase(query, limit) ==
    /\ Len(game_phases) < limit
    /\ Becomes(add_phase(World, query), "add_phase", NoInput)
    /\ UNCHANGED <<tickVars, readerVars, libVars>>

Execute(inp) ==
    /\ WithinBounds
    /\ Becomes(execute(World, inp), "execute", inp)
    /\ UNCHANGED <<tickVars, readerVars, libVars>>

EndPhase ==
    /\ WithinBounds
    /\ Becomes(end_phase(World), "end_phase", NoInput)
    /\ UNCHANGED <<tickVars, readerVars, libVars>>

\* ------------------------------------------------------------------------
\* Spec: a board given any of the scheduler's queries, in any order of calls
\* ------------------------------------------------------------------------

SchedQueries == {QUp1T, QEnd1T}

Next ==
    \/ \E side \in Sides, new_pieces \in PieceLists : AddPiece(side, new_pieces)
    \/ \E query \in SchedQueries : AddPhase(query, MaxPhases)
    \/ \E inp \in KeyKInputs : Execute(inp)
    \/ EndPhase

Spec == Init /\ [][Next]_vars

\* ------------------------------------------------------------------------
\* Properties of the scheduler (Spec)
\* ------------------------------------------------------------------------

\* position (1-based) of a side in the list of registered sides
IndexOf(side) == CHOOSE j \in 1..Len(sides) : sides[j] = side

\* the side registered immediately after a side, the first following the last
SideAfter(side) == sides[(IndexOf(side) % Len(sides)) + 1]

\* C6: turn rotation is round-robin over the registered sides: when a call on
\* a board with phases has invoked end_phase once and that wrapped the index
\* from the last phase to 0, turn went from the side it held to the side
\* registered immediately after it.
C6_RoundRobin ==
    (call.len0 > 0 /\ call.ended = 1) =>
        \A r \in 1..Len(call.rots) : call.rots[r].to = SideAfter(call.rots[r].from)

\* C7: phases become current in registration order and none is skipped: an
\* execute leaves the index where it was or at its successor, and rotates the
\* turn only when the phase it invoked was the last of the list (every phase
\* before it then having been current and ended since the last rotation).
C7_RegistrationOrder ==
    (call.op = "execute" /\ call.len0 > 0) =>
        /\ cp \in {call.cp0, (call.cp0 + 1) % call.len0}
        /\ call.rots # <<>> => call.cp0 = call.len0 - 1

\* an execute on a board with no phase leaves the board as it was
ExecuteOnEmptyBoard ==
    (call'.op = "execute" /\ game_phases = <<>>) =>
        UNCHANGED <<sides, turn, pieces, game_phases, cp, piece_row, piece_side>>

\* C8: the current-phase index is a valid index into the phase list whenever
\* the list is not empty, and execute changes nothing (index, turn, sides,
\* pieces) when the list is empty.
C8_IndexValid ==
    /\ [](game_phases # <<>> => cp \in 0..(Len(game_phases) - 1))
    /\ [][ExecuteOnEmptyBoard]_vars

\* an execute has wrapped the index of a list of two phases back to 0
C8_Witness ==
    /\ call.op = "execute"
    /\ Len(game_phases) = 2
    /\ call.cp0 = 1
    /\ cp = 0

\* C9: turn is None while no side is registered, and one of the registered
\* sides otherwise.
C9_TurnRegistered ==
    IF sides = <<>> THEN turn = None ELSE turn \in Range(sides)

\* an execute has rotated the turn from one registered side to another
C9_Witness ==
    /\ call.op = "execute"
    /\ call.rots # <<>>
    /\ turn # call.turn0
    /\ turn \in Range(sides)


\* C11: FinalRepException never leaves execute: no execute call ends raising
\* it, and every execute during which the current phase raised it has called
\* end_phase.
C11_SignalCaught ==
    call.op = "execute" =>
        /\ call.exc # "FinalRepException"
        /\ call.signals # <<>> => call.ended >= 1

\* the current phase raised FinalRepException during an execute, which called
\* end_phase once and returned normally
C11_Witness ==
    /\ call.op = "execute"
    /\ Len(call.signals) = 1
    /\ call.ended = 1
    /\ call.exc = "None"

\* ------------------------------------------------------------------------
\* Properties of one phase's budget and repeat flag (PhaseSpec)
\* ------------------------------------------------------------------------

\* a phase from a query `<n> <f|t> KEY <k> -> <effect>` with a finite n
FromKeyQuery(phase) ==
    /\ Len(phase.conditions) = 1
    /\ phase.conditions[1].type = <<"K", "E", "Y">>
    /\ phase.CT # Inf

\* C1: a phase from a query `<n> <f|t> KEY <k> -> <effect>` with finite n has
\* run its effect exactly n times since it held its full budget whenever it
\* raises FinalRepException, and for as long as it is not re-armed after that.
C1_ExactlyNRuns ==
    /\ \A s \in 1..Len(call.signals) :
          LET phase == game_phases[call.signals[s].phase]
          IN  FromKeyQuery(phase) => call.signals[s].runs = phase.CT
    /\ \A i \in 1..Len(game_phases) :
          (FromKeyQuery(game_phases[i]) /\ done[i]) => runs[i] = game_phases[i].CT

\* a phase of budget 2 signals completion on the call that runs its effect,
\* on a piece, for the second time
C1_Witness ==
    /\ call.op = "execute"
    /\ call.fired = 1
    /\ call.exc = "None"
    /\ pieces # <<>>
    /\ \E s \in 1..Len(call.signals) :
          /\ game_phases[call.signals[s].phase].CT = 2
          /\ call.signals[s].runs = 2

Rearmed ==
    /\ call.op \in {"execute", "end_phase"}
    /\ call.ended >= 1
    /\ call.exc = "None"

PhaseQueries == {QUp0T, QUp2T, QUp2F}

PhaseNext ==
    \/ \E side \in Sides, new_pieces \in PieceLists : AddPiece(side, new_pieces)
    \/ \E query \in PhaseQueries : AddPhase(query, MaxSoloPhases)
    \/ \E inp \in KeyKInputs : Execute(inp)
    \/ EndPhase

PhaseSpec == Init /\ [][PhaseNext]_vars

\* ------------------------------------------------------------------------
\* GroupSpec: boards of MaxSoloPhases phases with a condition group of one to
\* three conditions, under every input snapshot
\* ------------------------------------------------------------------------

GroupQueries == {QUp2T, QAnd2T, QAnd2F, QOr2T, QOr3T}

GroupNext ==
    \/ \E new_pieces \in PieceLists : AddPiece(0, new_pieces)
    \/ \E query \in GroupQueries : AddPhase(query, MaxSoloPhases)
    \/ \E inp \in Inputs : Execute(inp)

GroupSpec == Init /\ [][GroupNext]_vars

\* ------------------------------------------------------------------------
\* Properties of the condition groups (GroupSpec)
\* ------------------------------------------------------------------------

\* the call was an execute that invoked a phase with budget left
InvokedWithBudget ==
    /\ call.op = "execute"
    /\ call.len0 > 0
    /\ call.phase0.consumption_times >= 1

\* the invoked phase has the budget it was invoked with
BudgetUntouched ==
    game_phases[call.cp0 + 1].consumption_times = call.phase0.consumption_times

\* C4 as stated: an AND group of two conditions on a phase with budget left
\* runs the effect iff both conditions hold; if one is false no effect runs
\* and no budget is consumed.
C4_AndIff ==
    (InvokedWithBudget /\ call.phase0.andifying /\ Len(call.phase0.conditions) = 2) =>
        /\ call.fired = 1 <=> GroupHolds(call.phase0, call.inp)
        /\ ~GroupHolds(call.phase0, call.inp) => (call.fired = 0 /\ BudgetUntouched)

\* C4: an AND group of two conditions on a phase with budget left runs the
\* effect only if both conditions hold, and then does unless the phase is
\* non-repeatable and has run its effect since its group was last false; if
\* one is false no effect runs and no budget is consumed.
C4_AndIffUnlessHeld ==
    (InvokedWithBudget /\ call.phase0.andifying /\ Len(call.phase0.conditions) = 2) =>
        /\ call.fired = 1 <=>
              /\ GroupHolds(call.phase0, call.inp)
              /\ call.phase0.repeatable \/ ~call.streak0
        /\ call.fired \in {0, 1}
        /\ ~GroupHolds(call.phase0, call.inp) => (call.fired = 0 /\ BudgetUntouched)

\* both conditions of a non-repeatable AND pair hold, and the effect runs
C4_Witness ==
    /\ InvokedWithBudget
    /\ call.phase0.andifying
    /\ Len(call.phase0.conditions) = 2
    /\ ~call.phase0.repeatable
    /\ GroupHolds(call.phase0, call.inp)
    /\ call.fired = 1

\* C5: an OR group of one or more conditions on a repeatable phase with budget
\* left runs the effect on every call on which a condition holds, and on no
\* call on which none holds.
C5_OrRepeatable ==
    (/\ InvokedWithBudget
     /\ ~call.phase0.andifying
     /\ call.phase0.repeatable
     /\ Len(call.phase0.conditions) >= 1) =>
        call.fired = (IF GroupHolds(call.phase0, call.inp) THEN 1 ELSE 0)

\* only the first of three OR conditions holds, and the effect runs
C5_Witness ==
    /\ InvokedWithBudget
    /\ ~call.phase0.andifying
    /\ call.phase0.repeatable
    /\ Len(call.phase0.conditions) = 3
    /\ call.inp.keys = {KeyK}
    /\ call.inp.mouse = {}
    /\ call.fired = 1

\* ------------------------------------------------------------------------
\* ScenarioSpec: the set-up of main.py (a piece constructed at StartRow, the
\* board given its phases and pieces), then one execute per tick
\* ------------------------------------------------------------------------

ScenarioQueries == {QUp0T, QUp1T, QUp1F, QUp2T, QUp2F}

ScenarioInit ==
    /\ sides = <<>>
    /\ turn = None
    /\ pieces = <<>>
    /\ game_phases = <<>>
    /\ cp = 0
    /\ piece_row = [p \in PieceIds |-> StartRow]
    /\ piece_side = [p \in PieceIds |-> None]
    /\ set_side_calls = [p \in PieceIds |-> 0]
    /\ runs = <<>>
    /\ done = <<>>
    /\ streak = <<>>
    /\ call = [op |-> "init", inp |-> NoInput, cp0 |-> 0, turn0 |-> None, len0 |-> 0,
               phase0 |-> null, streak0 |-> FALSE, fired |-> 0, signals |-> <<>>,
               ended |-> 0, rots |-> <<>>, exc |-> "None"]
    /\ tick = 0
    /\ tick_log = <<>>
    /\ asked = NoQuery
    /\ read = NoRead
    /\ LibIdle

SetUpPiece(side, new_pieces) ==
    /\ tick = 0
    /\ AddPiece(side, new_pieces)

SetUpPhase(query) ==
    /\ tick = 0
    /\ AddPhase(query, MaxSoloPhases)

\* one frame of the main loop: BOARD.execute(SCREEN), and what the tick saw
Tick(inp) ==
    /\ tick < MaxTicks
    /\ LET W == execute(World, inp)
       IN /\ Becomes(W, "execute", inp)
          /\ tick' = tick + 1
          /\ tick_log' = Append(tick_log,
                 [k |-> KeyK \in inp.keys,
                  row |-> IF W.pieces = <<>> THEN None ELSE W.piece_row[W.pieces[1]],
                  fired |-> W.fired,
                  ended |-> W.ended])
          /\ UNCHANGED <<readerVars, libVars>>

ScenarioNext ==
    \/ \E side \in Sides, new_pieces \in PieceLists : SetUpPiece(side, new_pieces)
    \/ \E query \in ScenarioQueries : SetUpPhase(query)
    \/ \E inp \in KeyKInputs : Tick(inp)

ScenarioSpec == ScenarioInit /\ [][ScenarioNext]_vars

\* the fields from_query gives the phase of a query
IsPhaseOf(phase, query) ==
    LET made == Parsed[query].phase
    IN  /\ phase.conditions = made.conditions
        /\ phase.andifying = made.andifying
        /\ phase.output = made.output
        /\ phase.CT = made.CT
        /\ phase.repeatable = made.repeatable

\* the board's only phase is `2 T KEY k -> PEACE[0].move(UP)`, its one piece
\* started at row StartRow, and k was held on each of the first three ticks
TwoMovesScenario ==
    /\ Len(game_phases) = 1
    /\ IsPhaseOf(game_phases[1], QUp2T)
    /\ Len(pieces) = 1
    /\ Len(tick_log) >= 3
    /\ \A t \in 1..3 : tick_log[t].k

\* C2 as stated: the piece row is 3 after tick 1 and 2 after tick 2, end_phase
\* is invoked during tick 3, and tick 3 does not move the piece.
C2_EndsOnThirdTick ==
    TwoMovesScenario =>
        /\ tick_log[1].row = 3
        /\ tick_log[2].row = 2
        /\ tick_log[3].ended >= 1
        /\ tick_log[3].row = 2

\* C2: the piece row is 3 after tick 1 and 2 after tick 2, end_phase is
\* invoked once during tick 2 (the tick that spends the budget) and not during
\* ticks 1 and 3, and tick 3 runs the re-armed phase's effect: the row is 1.
C2_EndsOnSecondTick ==
    TwoMovesScenario =>
        /\ tick_log[1].row = 3 /\ tick_log[1].fired = 1 /\ tick_log[1].ended = 0
        /\ tick_log[2].row = 2 /\ tick_log[2].fired = 1 /\ tick_log[2].ended = 1
        /\ tick_log[3].row = 1 /\ tick_log[3].fired = 1 /\ tick_log[3].ended = 0

\* the scenario has run its three ticks
C2_Witness ==
    /\ TwoMovesScenario
    /\ tick = 3
    /\ tick_log[3].row = 1

\* ------------------------------------------------------------------------
\* NullSpec: boards whose phase list may hold the null phase from_query
\* returns for a query that does not resolve
\* ------------------------------------------------------------------------

\* Board.add_phase where from_query takes its `not resolve(query)` branch
AddNullPhase(limit) ==
    /\ Len(game_phases) < limit
    /\ Becomes(append_phase(World, null), "add_phase", NoInput)
    /\ UNCHANGED <<tickVars, readerVars, libVars>>

NullNext ==
    \/ \E side \in Sides, new_pieces \in PieceLists : AddPiece(side, new_pieces)
    \/ \E query \in SchedQueries : AddPhase(query, MaxPhases)
    \/ AddNullPhase(MaxPhases)
    \/ \E inp \in KeyKInputs : Execute(inp)

NullSpec == Init /\ [][NullNext]_vars

\* the null phase is the current phase and a phase from a query is registered
\* right after it, on a board the main loop goes on executing
NullIsCurrent ==
    /\ cp + 1 < Len(game_phases)
    /\ game_phases[cp + 1] = null
    /\ game_phases[cp + 2] # null
    /\ WithinBounds

\* the main loop calls execute on every frame: the frames on which the null
\* phase is current are not put off forever
FairNullSpec ==
    NullSpec /\ WF_vars(NullIsCurrent /\ \E inp \in KeyKInputs : Execute(inp))

ReaderInit ==
    /\ sides = <<>>
    /\ turn = None
    /\ pieces = <<>>
    /\ game_phases = <<>>
    /\ cp = 0
    /\ piece_row = [p \in PieceIds |-> FirstRow]
    /\ piece_side = [p \in PieceIds |-> None]
    /\ set_side_calls = [p \in PieceIds |-> 0]
    /\ runs = <<>>
    /\ done = <<>>
    /\ streak = <<>>
    /\ call = [op |-> "init", inp |-> NoInput, cp0 |-> 0, turn0 |-> None, len0 |-> 0,
               phase0 |-> null, streak0 |-> FALSE, fired |-> 0, signals |-> <<>>,
               ended |-> 0, rots |-> <<>>, exc |-> "None"]
    /\ tick = 0
    /\ tick_log = <<>>
    /\ asked \in ReaderQueries
    /\ read = NoRead
    /\ LibIdle

\* a reader is applied to the query in hand
Reads(reader, result) ==
    /\ read' = [reader |-> reader, result |-> result]
    /\ UNCHANGED <<boardVars, tickVars, asked, libVars>>

ReadHeader == Reads("read_header", read_header(asked.text))

ReadRepeatability == Reads("read_repeatability", read_repeatability(asked.text))

ReadInput == Reads("read_input", read_input(asked.text))

ReadOutput == Reads("read_output", read_output(asked.text))

FromQuery == Reads("from_query", from_query(asked.text))

ReaderNext ==
    \/ ReadHeader
    \/ ReadRepeatability
    \/ ReadInput
    \/ ReadOutput
    \/ FromQuery
    \/ AddPhase(asked.text, MaxSoloPhases)

ReaderSpec == ReaderInit /\ [][ReaderNext]_vars

\* the condition value the grammar gives a token: an integer or a name
ValueOf(token) ==
    IF token = <<"2">>
    THEN [isint |-> TRUE, n |-> 2, s |-> <<>>]
    ELSE [isint |-> FALSE, n |-> 0, s |-> token]

\* the condition list of a group whose terms are all (kind, value)
ConditionsOf(group) ==
    [i \in 1..Len(group.terms) |->
        [type |-> group.terms[i][1], value |-> ValueOf(group.terms[i][2])]]

\* every term of the group has exactly two tokens
TwoTokenTerms(group) == \A i \in 1..Len(group.terms) : Len(group.terms[i]) = 2

\* the query in hand has a header and a `->`, so that its condition text is
\* the text of its group
GroupInPlace == asked.composed /\ asked.header.present /\ asked.effect.arrow

\* the query in hand is one of the grammar: an optional header, a group of
\* two-token terms with one kind of separator, `->` and an effect
WellFormed ==
    /\ asked.composed
    /\ asked.effect.arrow
    /\ ~asked.group.mixed
    /\ TwoTokenTerms(asked.group)

\* the phase constructed directly from the structured arguments of the query
DirectPhase ==
    Phase(ConditionsOf(asked.group), asked.effect.program, asked.header.budget,
          asked.group.andifying, asked.header.repeatable)

\* C15: for every well-formed query, from_query gives a phase, and it is the
\* phase constructed directly from the same condition list, AND/OR flag,
\* budget, repeatable flag and effect (so the two behave identically).
C15_SameAsDirect ==
    (read.reader = "from_query" /\ WellFormed) =>
        /\ read.result.exc = "None"
        /\ read.result.phase = DirectPhase

\* C16: a query without repeat count and flag parses into a phase with
\* unlimited budget and the conditions of its group.
C16_HeaderOmitted ==
    (read.reader = "from_query" /\ WellFormed /\ ~asked.header.present) =>
        /\ read.result.exc = "None"
        /\ read.result.phase.CT = Inf
        /\ read.result.phase.conditions = ConditionsOf(asked.group)

\* C17: read_header never raises, whatever the query.
C17_HeaderNeverRaises ==
    read.reader = "read_header" => read.result.exc = "None"

\* C18: read_input accepts a condition text only if each of its terms has
\* exactly two tokens, and fails with ValueError otherwise; add_phase then
\* raises that error and appends no phase.
C18_TwoTokenTerms ==
    /\ (read.reader = "read_input" /\ GroupInPlace) =>
          read.result.exc = (IF TwoTokenTerms(asked.group) THEN "None" ELSE "ValueError")
    /\ (call.op = "add_phase" /\ GroupInPlace /\ ~TwoTokenTerms(asked.group)) =>
          /\ call.exc = "ValueError"
          /\ game_phases = <<>>

\* add_phase has been called with a query that has a three-token term, has
\* raised ValueError, and the board has no phase
C18_Witness ==
    /\ call.op = "add_phase"
    /\ GroupInPlace
    /\ \E i \in 1..Len(asked.group.terms) : Len(asked.group.terms[i]) = 3
    /\ call.exc = "ValueError"
    /\ game_phases = <<>>

\* C19 as stated: for a condition text with both && and ||, read_input
\* returns the && terms with the AND flag.
C19_AndWins ==
    (read.reader = "read_input" /\ GroupInPlace /\ asked.group.mixed) =>
        /\ read.result.exc = "None"
        /\ read.result.andifying
        /\ Len(read.result.conditions) = Len(asked.group.terms)

\* C19: for a condition text with both && and ||, read_input splits on &&
\* only: it returns the && terms (the || inside them) with the AND flag when
\* each has two tokens, and raises ValueError when one has not.
C19_AndSplitOnly ==
    (read.reader = "read_input" /\ GroupInPlace /\ asked.group.mixed) =>
        IF TwoTokenTerms(asked.group)
        THEN /\ read.result.exc = "None"
             /\ read.result.andifying
             /\ read.result.conditions = ConditionsOf(asked.group)
        ELSE read.result.exc = "ValueError"

\* read_input has returned the two && terms of `KEY a||b && KEY f`
C19_Witness ==
    /\ read.reader = "read_input"
    /\ GroupInPlace
    /\ asked.group.mixed
    /\ read.result.exc = "None"
    /\ read.result.andifying
    /\ read.result.conditions[1].value.s = <<"a", "|", "|", "b">>

\* C20: read_output raises for every query without `->`, and returns the
\* effect program for every query with one.
C20_ArrowRequired ==
    read.reader = "read_output" =>
        IF asked.effect.arrow
        THEN /\ read.result.exc = "None"
             /\ read.result.program = asked.effect.program
        ELSE read.result.exc = "ValueError"

\* read_output has raised on a query with a header, a group and no `->`
C20_Witness ==
    /\ read.reader = "read_output"
    /\ asked.composed
    /\ ~asked.effect.arrow
    /\ read.result.exc = "ValueError"

\* ------------------------------------------------------------------------
\* ConfigSpec: a board with two pieces, given queries on a missing piece and
\* on unknown key and button names among well-formed ones
\* ------------------------------------------------------------------------

ConfigPieceIds == {1, 2}

ConfigQueries == {QUp1T, QPeace9, QPiece9, QBadKey, QBadMouse}

ConfigInit ==
    /\ sides = <<>>
    /\ turn = None
    /\ pieces = <<>>
    /\ game_phases = <<>>
    /\ cp = 0
    /\ piece_row = [p \in ConfigPieceIds |-> FirstRow]
    /\ piece_side = [p \in ConfigPieceIds |-> None]
    /\ set_side_calls = [p \in ConfigPieceIds |-> 0]
    /\ runs = <<>>
    /\ done = <<>>
    /\ streak = <<>>
    /\ call = [op |-> "init", inp |-> NoInput, cp0 |-> 0, turn0 |-> None, len0 |-> 0,
               phase0 |-> null, streak0 |-> FALSE, fired |-> 0, signals |-> <<>>,
               ended |-> 0, rots |-> <<>>, exc |-> "None"]
    /\ tick = 0
    /\ tick_log = <<>>
    /\ asked = NoQuery
    /\ read = NoRead
    /\ LibIdle

ConfigNext ==
    \/ AddPiece(0, <<1, 2>>)
    \/ \E query \in ConfigQueries : AddPhase(query, MaxPhases)
    \/ \E inp \in Inputs : Execute(inp)

ConfigSpec == ConfigInit /\ [][ConfigNext]_vars

\* the effect of the phase is on piece 9
OnMissingPiece(phase) == phase.output \in {ProgMoveUp9, ProgPieceMoveUp9}

\* C12: a phase registered from a query on piece 9, on a board with two
\* pieces, is inert: no execute call runs its effect and none raises.
C12_MissingPieceInert ==
    (call.op = "execute" /\ call.len0 > 0 /\ Len(pieces) = 2 /\ OnMissingPiece(call.phase0)) =>
        /\ call.fired = 0
        /\ call.exc = "None"

\* C13: every phase add_phase has appended has conditions the input source
\* can evaluate: no execute call raises from the condition group.
C13_NoConditionError ==
    (call.op = "execute" /\ call.len0 > 0) =>
        Phase_bool(call.phase0, call.inp).exc = "None"

\* ------------------------------------------------------------------------
\* Phase.__execute, one invocation at a time
\* ------------------------------------------------------------------------

\* execute has invoked the current phase
Invoked == call.op = "execute" /\ call.len0 > 0

\* the invocation passes both early returns of __execute: the condition group
\* holds, and the phase is repeatable or its last-iteration flag is clear
PassesGuards ==
    /\ Invoked
    /\ Phase_bool(call.phase0, call.inp).exc = "None"
    /\ GroupHolds(call.phase0, call.inp)
    /\ call.phase0.repeatable \/ ~call.phase0.last_iteration

\* C22: an invocation that brings the budget to exactly zero, and whose
\* effect returns, runs the effect once, sets the last-iteration flag and
\* then raises the completion signal; the signal is raised without running
\* the effect exactly when the decrement makes the budget negative.
C22_ZeroRunsThenSignals ==
    PassesGuards =>
        /\ (call.phase0.consumption_times = 1 /\ call.exc = "None") =>
              /\ call.fired = 1
              /\ Len(call.signals) = 1
              /\ call.signals[1].phase = call.cp0 + 1
              /\ call.signals[1].runs >= 1
              /\ call.ended = 1
              /\ game_phases[call.cp0 + 1].last_iteration
        /\ (call.signals # <<>> /\ call.fired = 0) => call.phase0.consumption_times <= 0
        /\ call.phase0.consumption_times <= 0 => (call.fired = 0 /\ call.signals # <<>>)

\* a phase with one unit of budget left has moved the piece and signalled
\* completion in one invocation
C22_Witness ==
    /\ PassesGuards
    /\ call.phase0.consumption_times = 1
    /\ call.exc = "None"
    /\ pieces # <<>>
    /\ call.fired = 1
    /\ Len(call.signals) = 1

\* C23: an execute call in which the current phase signals completion leaves
\* the scheduler on the next phase, (i + 1) mod the number of phases, with
\* turn rotated at most once, whatever the effect of the phase is.
C23_AdvancesOnePhase ==
    (Invoked /\ call.signals # <<>> /\ call.exc = "None") =>
        /\ cp = (call.cp0 + 1) % Len(game_phases)
        /\ Len(call.rots) <= 1

\* the phase the scheduler is on
Current == game_phases[cp + 1]

\* C24: the first phase registered, and the phase every end_phase that
\* returns leaves the scheduler on (after a wrap too), holds its configured
\* budget at that moment.
C24_ArmedWhenCurrent ==
    /\ (call.op \in {"execute", "end_phase"} /\ call.ended >= 1 /\ call.exc = "None") =>
          Current.consumption_times = Current.CT
    /\ (call.op = "add_phase" /\ call.len0 = 0 /\ call.exc = "None") =>
          /\ cp = 0
          /\ Current.consumption_times = Current.CT

\* the scheduler has wrapped from the second phase onto the first, which has
\* fired before and holds its budget of 1
C24_Witness ==
    /\ call.op \in {"execute", "end_phase"}
    /\ call.ended = 1
    /\ call.exc = "None"
    /\ call.cp0 = 1
    /\ cp = 0
    /\ Current.CT = 1
    /\ Current.consumption_times = 1
    /\ Current.last_iteration

\* C25: an execute call on which the condition group of the current phase is
\* false runs no effect, consumes no budget, and leaves the index, turn,
\* sides, the pieces and every other phase as they were (the invoked phase
\* has its last-iteration flag cleared, nothing else).
C25_FalseTickFrame ==
    [][(/\ call'.op = "execute"
        /\ game_phases # <<>>
        /\ GroupFalse(game_phases[cp + 1], call'.inp)) =>
           /\ call'.fired = 0
           /\ call'.ended = 0
           /\ call'.exc = "None"
           /\ game_phases' = [game_phases EXCEPT ![cp + 1].last_iteration = FALSE]
           /\ game_phases'[cp + 1].consumption_times = game_phases[cp + 1].consumption_times
           /\ UNCHANGED <<cp, turn, sides, pieces, piece_row, piece_side, runs, done>>]_vars

\* the first of two phases, with budget left and its flag set, has been
\* invoked with its key released
C25_Witness ==
    /\ Invoked
    /\ call.len0 = 2
    /\ call.cp0 = 0
    /\ GroupFalse(call.phase0, call.inp)
    /\ call.phase0.consumption_times >= 1
    /\ call.phase0.last_iteration
    /\ ~Current.last_iteration
    /\ call.fired = 0

\* ------------------------------------------------------------------------
\* UnlimitedSpec: boards given phase1 of main.py and another phase without a
\* repeat count, with a phase of budget 1 to advance to
\* ------------------------------------------------------------------------

UnlimitedQueries == {QMain1, QUpInfT, QUp1T}

UnlimitedNext ==
    \/ \E side \in Sides, new_pieces \in PieceLists : AddPiece(side, new_pieces)
    \/ \E query \in UnlimitedQueries : AddPhase(query, MaxPhases)
    \/ \E inp \in KeyKInputs : Execute(inp)

UnlimitedSpec == Init /\ [][UnlimitedNext]_vars

\* the effect program calls BOARD.end_phase()
InvokesEnd(program) == program \in {ProgEnd, ProgMoveUpEndAtRow0}

\* C26: a phase with the unlimited budget keeps it and never raises the
\* completion signal, however often it fires; an execute call on it moves the
\* scheduler only by an effect that calls end_phase.
C26_UnlimitedNeverExhausts ==
    /\ \A i \in 1..Len(game_phases) :
          game_phases[i].CT = Inf =>
              (game_phases[i].consumption_times = Inf /\ ~done[i])
    /\ (Invoked /\ call.phase0.CT = Inf) =>
          /\ call.signals = <<>>
          /\ call.exc # "FinalRepException"
          /\ (call.ended >= 1 \/ cp # call.cp0) =>
                (call.fired = 1 /\ InvokesEnd(call.phase0.output))

\* an unlimited phase has run its effect for the second time and is still
\* the current phase
C26_Witness ==
    /\ Invoked
    /\ call.phase0.CT = Inf
    /\ call.fired = 1
    /\ call.exc = "None"
    /\ runs[call.cp0 + 1] >= 2
    /\ call.ended = 0
    /\ cp = call.cp0

\* the scheduler has left phase1 of main.py by its END, for the next phase
C26_LeavesByEnd ==
    /\ Invoked
    /\ call.phase0.CT = Inf
    /\ call.ended = 1
    /\ cp # call.cp0

\* C27: a non-repeatable phase runs its effect on an invocation with its
\* condition true exactly when it has budget left and has not run it since
\* the last invocation with the condition false: at most once in a run of
\* true invocations, and again after a false one.
C27_EdgeTriggered ==
    (Invoked /\ ~call.phase0.repeatable /\ Phase_bool(call.phase0, call.inp).exc = "None") =>
        /\ (GroupHolds(call.phase0, call.inp) /\ call.streak0) => call.fired = 0
        /\ (/\ GroupHolds(call.phase0, call.inp)
            /\ ~call.streak0
            /\ call.phase0.consumption_times >= 1) => call.fired = 1
        /\ ~GroupHolds(call.phase0, call.inp) =>
              (call.fired = 0 /\ ~game_phases[call.cp0 + 1].last_iteration)

\* a non-repeatable phase of budget 2 has run its effect for the second time
\* since it was armed: the key was released in between
C27_Witness ==
    /\ Invoked
    /\ ~call.phase0.repeatable
    /\ call.phase0.consumption_times = 1
    /\ call.phase0.CT = 2
    /\ ~call.streak0
    /\ call.fired = 1
    /\ call.exc = "None"

\* ------------------------------------------------------------------------
\* Board.add_piece
\* ------------------------------------------------------------------------

\* C28: an add_piece call that raises leaves sides, turn and pieces as they
\* were.
C28_FailedAddPieceFrame ==
    [][(call'.op = "add_piece" /\ call'.exc # "None") =>
           UNCHANGED <<sides, turn, pieces>>]_vars

\* ------------------------------------------------------------------------
\* Phase.from_file, one step per evaluation of a loop condition or a loop body
\* ------------------------------------------------------------------------

\* a board nobody has called yet, no tick, no query in hand
BoardNew ==
    /\ sides = <<>>
    /\ turn = None
    /\ pieces = <<>>
    /\ game_phases = <<>>
    /\ cp = 0
    /\ piece_row = [p \in PieceIds |-> FirstRow]
    /\ piece_side = [p \in PieceIds |-> None]
    /\ set_side_calls = [p \in PieceIds |-> 0]
    /\ runs = <<>>
    /\ done = <<>>
    /\ streak = <<>>
    /\ call = [op |-> "init", inp |-> NoInput, cp0 |-> 0, turn0 |-> None, len0 |-> 0,
               phase0 |-> null, streak0 |-> FALSE, fired |-> 0, signals |-> <<>>,
               ended |-> 0, rots |-> <<>>, exc |-> "None"]
    /\ tick = 0
    /\ tick_log = <<>>
    /\ asked = NoQuery
    /\ read = NoRead

\* lines a phase-query file is made of
\* '1 T KEY k -> PEACE[0].move(UP)\n'
LineQuery ==
    <<"1", " ", "T", " ", "K", "E", "Y", " ", "k", " ", "-", ">", " ", "P", "E", "A", "C", "E",
      "[", "0", "]", ".", "m", "o", "v", "e", "(", "U", "P", ")", "\n">>

\* '----\n'
LineSeparator ==
    <<"-", "-", "-", "-", "\n">>

\* files of at most MaxLines lines
MaxLines == 4

Files == UNION {[1..n -> {LineQuery, LineSeparator}] : n \in 0..MaxLines}

\* f.readline(): the next line, or '' at the end of the file
readline == IF pos < Len(file) THEN file[pos + 1] ELSE <<>>

\* line.startswith('----')
startswith(text, prefix) == MatchAt(text, 1, prefix)

\* Phase.from_query(phase_query): a call with one argument of a method that
\* takes (query, window, board)
from_query_of_block(block) == [exc |-> "TypeError", phase |-> null]

FileInit ==
    /\ BoardNew
    /\ CacheNew(DefaultMaxSize)
    /\ AnimIdle
    /\ file \in Files
    /\ pos = 0
    /\ pc = "outer"
    /\ head_line = <<>>
    /\ line = <<>>
    /\ phase_query = <<>>
    /\ L = <<>>

\* while (c := f.readline()): phase_query = c + '\n'
OuterLoop ==
    /\ pc = "outer"
    /\ head_line' = readline
    /\ pos' = IF pos < Len(file) THEN pos + 1 ELSE pos
    /\ IF readline = <<>>
       THEN pc' = "returned" /\ UNCHANGED phase_query
       ELSE pc' = "inner" /\ phase_query' = readline \o <<"\n">>
    /\ UNCHANGED <<boardVars, tickVars, readerVars, cacheVars, animVars, file, line, L>>

\* while not (line := f.readline()).startswith('----')
InnerCondition ==
    /\ pc = "inner"
    /\ line' = readline
    /\ pos' = IF pos < Len(file) THEN pos + 1 ELSE pos
    /\ pc' = IF startswith(readline, <<"-", "-", "-", "-">>) THEN "append" ELSE "body"
    /\ UNCHANGED <<boardVars, tickVars, readerVars, cacheVars, animVars, file, head_line, phase_query, L>>

\* phase_query += line
InnerBody ==
    /\ pc = "body"
    /\ phase_query' = phase_query \o line
    /\ pc' = "inner"
    /\ UNCHANGED <<boardVars, tickVars, readerVars, cacheVars, animVars, file, pos, head_line, line, L>>

\* L.append(Phase.from_query(phase_query))
AppendPhase ==
    /\ pc = "append"
    /\ LET made == from_query_of_block(phase_query)
       IN  IF made.exc # "None"
           THEN pc' = "raised" /\ UNCHANGED L
           ELSE pc' = "outer" /\ L' = Append(L, made.phase)
    /\ UNCHANGED <<boardVars, tickVars, readerVars, cacheVars, animVars, file, pos, head_line, line, phase_query>>

FileNext == OuterLoop \/ InnerCondition \/ InnerBody \/ AppendPhase

FileSpec == FileInit /\ [][FileNext]_vars

\* the interpreter keeps running from_file while it has a step to take
FairFileSpec == FileSpec /\ WF_vars(FileNext)

\* C21: from_file terminates on every file (by returning or by raising).
C21_LoadTerminates == <>(pc \in {"returned", "raised"})

\* ------------------------------------------------------------------------
\* animation/resource_manager.py: ResourceCache
\* A cache is C = [cache, metadata, current_size, evicted, stored]: the keys
\* of __cache and the (key, metadata) items of __metadata in insertion order,
\* and what the call in progress has evicted and whether it stored.
\* ------------------------------------------------------------------------

\* calls on one cache
MaxCalls == 4

\* max_size, and the size and last_modified of the metadata put is given
MaxSizes == {2, 3}
Sizes == {1, 2}
ModifiedTimes == {1, 2}

\* the sequence without its i-th element
Without(seq, i) == SubSeq(seq, 1, i - 1) \o SubSeq(seq, i + 1, Len(seq))

\* del self.__cache[key]; del self.__metadata[key], with the size given back
Delete(C, key) ==
    LET i == CHOOSE j \in 1..Len(C.cache) : C.cache[j] = key
    IN  [C EXCEPT !.cache = Without(C.cache, i),
                  !.metadata = Without(C.metadata, i),
                  !.current_size = @ - C.metadata[i].size]

\* min(self.__metadata.items(), key=lambda x: x[1].last_modified)[0]: the
\* first item, in insertion order, of the smallest last_modified
oldest_key(C) ==
    LET i == CHOOSE j \in 1..Len(C.metadata) :
                 /\ \A k \in 1..Len(C.metadata) :
                       C.metadata[j].last_modified <= C.metadata[k].last_modified
                 /\ \A k \in 1..(j - 1) :
                       C.metadata[k].last_modified # C.metadata[j].last_modified
    IN  C.metadata[i].key

\* the key is, of the keys in the cache, the one put or got longest ago
LeastRecentlyUsed(C, key) ==
    \A j \in 1..Len(C.cache) : last_used[key] <= last_used[C.cache[j]]

\* the while loop of put, and the store after it
RECURSIVE make_space(_, _, _)
make_space(C, key, meta) ==
    IF C.current_size + meta.size > max_size
    THEN IF C.cache = <<>>
         THEN C
         ELSE LET oldest == oldest_key(C)
                  gone == [key |-> oldest, lru |-> LeastRecentlyUsed(C, oldest)]
              IN  make_space([Delete(C, oldest) EXCEPT !.evicted = Append(@, gone)],
                             key, meta)
    ELSE [C EXCEPT !.cache = Append(@, key),
                   !.metadata = Append(@, meta),
                   !.current_size = @ + meta.size,
                   !.stored = TRUE]

\* ResourceCache.put
put(C, key, meta) ==
    make_space(IF \E j \in 1..Len(C.cache) : C.cache[j] = key THEN Delete(C, key) ELSE C,
               key, meta)

\* the cache as a call finds it
Cache ==
    [cache |-> cache, metadata |-> metadata, current_size |-> current_size,
     evicted |-> <<>>, stored |-> FALSE]

CacheInit ==
    /\ BoardNew
    /\ FileIdle
    /\ AnimIdle
    /\ \E size \in MaxSizes : CacheNew(size)

Put(key, size, last_modified) ==
    /\ clock < MaxCalls
    /\ LET C == put(Cache, key, [key |-> key, last_modified |-> last_modified, size |-> size])
       IN  /\ cache' = C.cache
           /\ metadata' = C.metadata
           /\ current_size' = C.current_size
           /\ cache_call' = [op |-> "put", key |-> key, evicted |-> C.evicted,
                             stored |-> C.stored]
    /\ clock' = clock + 1
    /\ last_used' = [last_used EXCEPT ![key] = clock + 1]
    /\ UNCHANGED <<boardVars, tickVars, readerVars, fileVars, animVars, max_size>>

\* ResourceCache.get: the resource under the key, or None
Get(key) ==
    /\ clock < MaxCalls
    /\ cache_call' = [op |-> "get", key |-> key, evicted |-> <<>>,
                      stored |-> \E j \in 1..Len(cache) : cache[j] = key]
    /\ clock' = clock + 1
    /\ last_used' = [last_used EXCEPT ![key] = clock + 1]
    /\ UNCHANGED <<boardVars, tickVars, readerVars, fileVars, animVars,
                   cache, metadata, max_size, current_size>>

CacheNext ==
    \/ \E key \in CacheKeys, size \in Sizes, last_modified \in ModifiedTimes :
          Put(key, size, last_modified)
    \/ \E key \in CacheKeys : Get(key)

CacheSpec == CacheInit /\ [][CacheNext]_vars

\* C29: every entry put evicts is, when it is evicted, the entry whose last
\* put or get is the oldest of the entries in the cache.
C29_EvictsLeastRecentlyUsed ==
    cache_call.op = "put" =>
        \A i \in 1..Len(cache_call.evicted) : cache_call.evicted[i].lru

\* ------------------------------------------------------------------------
\* animation/animation.py and animation/animation_set.py
\* An Animation is [frames, start, current, repeat]: len(SL), __start,
\* __current and __repeat.
\* ------------------------------------------------------------------------

\* ratio of frame index to __current
RATIO == 100

\* frames of each animation of the set
MaxFrames == 2

\* the state keys of the set, in insertion order, and the values it is built
\* and called with
AnimKeys == {0, 1, 2}
Priorities == {1, 2}
FrameSpeeds == {50, 100}
Starts == {None, 1}
Repeats == {None, 1}

\* Animation.__init__
Animation(frames) == [frames |-> frames, start |-> 0, current |-> 0, repeat |-> frames]

\* Animation.ended
ended(animation) == animation.current >= RATIO * animation.repeat

\* Animation.update
update(animation, start, repeat) ==
    [animation EXCEPT
        !.start = IF start # None /\ start # 0 THEN start ELSE @,
        !.repeat = IF repeat # None /\ repeat # 0 THEN Min({repeat, animation.frames}) ELSE @]

\* Animation.reset
reset_animation(animation) ==
    [animation EXCEPT !.start = 0, !.current = 0, !.repeat = animation.frames]

\* Animation.generate: the index of the frame returned, and the animation after
generate_frame(animation, speed) ==
    LET moved == [animation EXCEPT !.current = @ + speed]
    IN  [frame |-> animation.current \div RATIO,
         animation |-> IF ended(moved)
                       THEN [moved EXCEPT !.current = RATIO * moved.start]
                       ELSE moved]

\* AnimationSet.__compare_priority
compare_priority(anim_index1, anim_index2) ==
    IF anim_index1 = anim_index2 THEN FALSE
    ELSE priorities[anim_index1] <= priorities[anim_index2]

\* AnimationSet.__init__ with an animation for each key, and what the caller
\* will ask for
AnimInit ==
    /\ BoardNew
    /\ FileIdle
    /\ CacheNew(DefaultMaxSize)
    /\ animations = [key \in AnimKeys |-> Animation(MaxFrames)]
    /\ priorities \in [AnimKeys -> Priorities]
    /\ state = 0
    /\ wait = None
    /\ reset = FALSE
    /\ frame_speed \in FrameSpeeds
    /\ requested \in AnimKeys
    /\ shown = None

\* AnimationSet.generate(state, start, repeat)
Generate(suggested, start, repeat) ==
    LET asked_state == IF suggested = None \/ suggested \notin AnimKeys
                       THEN state ELSE suggested
        animation == update(animations[state], start, repeat)
        switches == compare_priority(state, asked_state) \/ ended(animation)
        made == generate_frame(IF switches THEN reset_animation(animation) ELSE animation,
                               frame_speed)
    IN  /\ state' = IF switches THEN asked_state ELSE state
        /\ wait' = IF switches THEN None ELSE asked_state
        /\ reset' = switches
        /\ animations' = [animations EXCEPT ![state] = made.animation]
        /\ shown' = [key |-> state, frame |-> made.frame]
        /\ UNCHANGED <<boardVars, tickVars, readerVars, fileVars, cacheVars,
                       priorities, frame_speed, requested>>

\* a frame of the main loop: generate(requested)
Play == Generate(requested, None, None)

\* a call that also moves the start or the end of the current animation
PlayPart ==
    \E start \in Starts, repeat \in Repeats :
        /\ start # None \/ repeat # None
        /\ Generate(requested, start, repeat)

AnimNext == Play \/ PlayPart

AnimSpec == AnimInit /\ [][AnimNext]_vars

\* the main loop calls generate(requested) on every frame
FairAnimSpec == AnimSpec /\ WF_vars(Play)

\* C30: a state of lower priority than the current one, asked for on every
\* call, eventually becomes the current state.
C30_LowerPriorityEventuallyPlays ==
    (state # requested /\ priorities[requested] < priorities[state]) ~> (state = requested)

====
